---- MODULE Spec2Model ----
(***************************************************************************)
(* A model of the KAOS visibility service (KMC-70/kaos).                   *)
(*                                                                         *)
(*   SpecFinder  VisibilityFinder.determine_visibility                     *)
(*               (kaos/algorithm/visibility_finder.py)                     *)
(*   SpecApi     the /visibility/search and /opportunity/search handlers   *)
(*               and the ResponseHistory table (kaos/api/visibility.py)    *)
(*   SpecStore   add_segment_to_db, OrbitSegment.get_by_platform_and_time  *)
(*               and Interpolator.interpolate                              *)
(*   SpecParser  parse_ephemeris_file (kaos/models/parser.py)              *)
(*   SpecIntervals  trim_poi_segments and fuse_neighbor_intervals          *)
(*               (kaos/utils/time_intervals.py)                            *)
(*   SpecCone, SpecConeSamples  reduce_poi (kaos/algorithm/view_cone.py)   *)
(*   SpecClock   utc_to_unix (kaos/utils/time_conversion.py)               *)
(*   SpecWindows the one-day windows of get_point_visibility_helper        *)
(*   SpecFinderFair  determine_visibility run to its end                   *)
(*                                                                         *)
(* Times are integers (seconds).  The numerical parts (the visibility      *)
(* function, bound_time_step_error, the roots of the Hermite cubic) are    *)
(* inputs drawn from small sets.                                           *)
(***************************************************************************)
EXTENDS Integers, Sequences, FiniteSets, TLC

VARIABLES
    \* ---- VisibilityFinder.determine_visibility ----
    f_pc,               \* position in determine_visibility
    f_interval,         \* self.interval = <<start_time, end_time>>
    f_max_iter,         \* the max_iter argument
    subinterval_start,
    subinterval_end,
    prev_time_step,
    new_time_step_1,
    iter_num,
    access_start,
    sat_accesses,
    f_vstart,           \* what self.visibility(start_time) > 0 evaluated to
    f_vend,             \* what self.visibility(end_time) > 0 evaluated to ("unread" before)
    f_end_visible,      \* whether the visibility function is positive at end_time
    f_roots,            \* history: the roots processed so far, in processing order
    f_examined,         \* history: the sub-intervals whose roots were searched so far
    \* ---- the search handlers and the ResponseHistory table ----
    history,            \* ResponseHistory: sequence of [uid, response], committed rows
    a_pc,               \* position of the request in flight
    a_req,              \* the request being served
    a_truth,            \* the visibility function of each satellite over each site
    a_vertex,           \* what get_point_visibility_helper returned, per satellite and target
    a_periods,          \* visibility_periods / satellite_area_visibility
    a_error,            \* the exception that ended the request ("none" if none)
    a_entry,            \* index in history of response_history (0 before it is committed)
    a_response,         \* the response handed to jsonify
    a_before,           \* the table when the request arrived
    a_served,           \* requests served so far
    r_seen,             \* what a concurrent reader of the table last observed
    \* ---- OrbitSegment / OrbitRecord tables and one Interpolator ----
    segments,           \* OrbitSegment rows, in insertion order
    records,            \* OrbitRecord rows, in insertion order
    i_platform,         \* Interpolator.platform_id (None before construction)
    i_memo,             \* keys of segment_times / segment_positions / segment_velocities
    i_last,             \* the last interpolate call and its outcome
    \* ---- parse_ephemeris_file ----
    p_pc,
    p_file,             \* the lines of the file
    p_line,             \* index of the next line
    p_epoch,            \* start_time
    segment_boundaries,
    segment_tuples,
    read_segment_boundaries,
    read_orbital_data,
    last_seen_segment_boundary,
    p_segments,         \* OrbitSegment rows of the new satellite
    p_records,          \* OrbitRecord rows of the new satellite
    p_after_end,        \* sample rows parsed after the END Ephemeris line
    \* ---- trim_poi_segments / fuse_neighbor_intervals (kaos/utils/time_intervals.py) ----
    t_pc,               \* which of the two functions has been applied, and how often
    t_list,             \* the caller's list (fuse sorts it in place and appends None)
    t_poi,              \* the poi argument of trim_poi_segments
    t_out,              \* what the first application returned
    t_again,            \* what the function returned when applied to t_out
    \* ---- reduce_poi (kaos/algorithm/view_cone.py) ----
    v_pc,
    v_poi,              \* the poi argument
    v_samples,          \* what _view_cone_calc returns for each (position, velocity) pair
    v_roots,            \* <<t_1, t_2, t_3, t_4>> of the samples, or NoRoots
    v_emitted,          \* history: the intervals appended in each iteration m (at m + 1)
    v_out,              \* the list returned
    v_seen,             \* a time of the POI at which V(t) >= 0 (None: there is none)
    \* ---- utc_to_unix (kaos/utils/time_conversion.py) ----
    c_pc,
    c_string,           \* the time_string argument, field by field
    c_out,              \* the number returned
    \* ---- ResponseHistory.get_by_id (kaos/models/models.py) ----
    g_last,             \* the last call: its uid and the row it returned
    \* ---- the one-day windows of get_point_visibility_helper (kaos/api/visibility.py) ----
    w_pc,
    w_poi,              \* the poi argument
    w_list              \* poi_list

finderVars == <<f_pc, f_interval, f_max_iter, subinterval_start, subinterval_end,
                prev_time_step, new_time_step_1, iter_num, access_start, sat_accesses,
                f_vstart, f_vend, f_end_visible, f_roots, f_examined>>
apiVars == <<history, a_pc, a_req, a_truth, a_vertex, a_periods, a_error, a_entry, a_response,
             a_before, a_served, r_seen>>
storeVars == <<segments, records, i_platform, i_memo, i_last>>
parserVars == <<p_pc, p_file, p_line, p_epoch, segment_boundaries, segment_tuples,
                read_segment_boundaries, read_orbital_data, last_seen_segment_boundary,
                p_segments, p_records, p_after_end>>
intervalVars == <<t_pc, t_list, t_poi, t_out, t_again>>
coneVars == <<v_pc, v_poi, v_samples, v_roots, v_emitted, v_out, v_seen>>
clockVars == <<c_pc, c_string, c_out>>
lookupVars == <<g_last>>
windowVars == <<w_pc, w_poi, w_list>>
vars == <<finderVars, apiVars, storeVars, parserVars, intervalVars, coneVars, clockVars, lookupVars, windowVars>>
notFinderVars == <<apiVars, storeVars, parserVars, intervalVars, coneVars, clockVars, lookupVars, windowVars>>
notApiVars == <<finderVars, storeVars, parserVars, intervalVars, coneVars, clockVars, lookupVars, windowVars>>
notStoreVars == <<finderVars, apiVars, parserVars, intervalVars, coneVars, clockVars, lookupVars, windowVars>>
notParserVars == <<finderVars, apiVars, storeVars, intervalVars, coneVars, clockVars, lookupVars, windowVars>>
notIntervalVars == <<finderVars, apiVars, storeVars, parserVars, coneVars, clockVars, lookupVars, windowVars>>
notConeVars == <<finderVars, apiVars, storeVars, parserVars, intervalVars, clockVars, lookupVars, windowVars>>
notClockVars == <<finderVars, apiVars, storeVars, parserVars, intervalVars, coneVars, lookupVars, windowVars>>
notWindowVars == <<finderVars, apiVars, storeVars, parserVars, intervalVars, coneVars, clockVars,
                   lookupVars>>

\* Python's None, where the code stores None in a slot that otherwise holds a time or an id.
None == -1

Abs(x) == IF x < 0 THEN -x ELSE x
Min(a, b) == IF a <= b THEN a ELSE b
Max(a, b) == IF a >= b THEN a ELSE b
Last(s) == s[Len(s)]

RECURSIVE SeqsUpTo(_, _)
\* All sequences over S of length at most n.
SeqsUpTo(S, n) ==
    IF n = 0 THEN {<<>>}
    ELSE LET shorter == SeqsUpTo(S, n - 1)
         IN  shorter \cup {Append(s, x) : s \in {t \in shorter : Len(t) = n - 1}, x \in S}

(***************************************************************************)
(* VisibilityFinder.determine_visibility                                   *)
(***************************************************************************)

\* Bounds of the finder's inputs: times lie on a grid of Tick seconds.
Tick == 500
MaxPoiTicks == 3
MaxStepTicks == 2
MaxRoots == 1
MaxIterArg == 1
MaxFairPoiTicks == 2

\* prev_time_step = 1000: the length of the initial sub-interval (h).
InitialTimeStep == 1000
\* tolerance_ratio = 0.1, kept as the fraction 1 / ToleranceRatioInv.
ToleranceRatioInv == 10

FinderTimes == {k * Tick : k \in 0..MaxPoiTicks}
FinderIntervals == {<<s, e>> : s \in {0, Tick}, e \in FinderTimes} \cap
                   {iv \in FinderTimes \X FinderTimes : iv[1] <= iv[2]}
\* The POIs of the runs checked for termination: at most MaxFairPoiTicks ticks long.
ShortFinderIntervals == {iv \in FinderIntervals : iv[2] - iv[1] <= MaxFairPoiTicks * Tick}
\* The values bound_time_step_error can return: positive steps.
TimeSteps == {k * Tick : k \in 1..MaxStepTicks}
\* The real roots mp.polyroots can return in [lo, hi], in the order it returns them.
GridIn(lo, hi) == {t \in {k * Tick : k \in 0..(MaxPoiTicks + MaxStepTicks + 2)} : lo <= t /\ t <= hi}
RootLists(lo, hi) == SeqsUpTo(GridIn(lo, hi), MaxRoots)

FinderStart(intervals, max_iters, end_signs) ==
    /\ f_pc = "new"
    /\ f_interval \in intervals
    /\ f_max_iter \in max_iters
    /\ subinterval_start = 0
    /\ subinterval_end = 0
    /\ prev_time_step = 0
    /\ new_time_step_1 = 0
    /\ iter_num = 0
    /\ access_start = None
    /\ sat_accesses = <<>>
    /\ f_vstart = "unread"
    /\ f_vend = "unread"
    /\ f_end_visible \in end_signs
    /\ f_roots = <<>>
    /\ f_examined = <<>>

\* An assembly that emits the window but leaves the access open at the root.
RECURSIVE AssembleAccessesKeepingOpen(_, _, _)
AssembleAccessesKeepingOpen(roots, acc_start, accesses) ==
    IF roots = <<>> THEN <<acc_start, accesses>>
    ELSE IF acc_start = None
         THEN AssembleAccessesKeepingOpen(Tail(roots), Head(roots), accesses)
         ELSE AssembleAccessesKeepingOpen(Tail(roots), Head(roots),
                                          Append(accesses, <<acc_start, Head(roots)>>))

\* for root in roots: open an access, or close the open one (lines 311-316).
\* Returns <<access_start, sat_accesses>>.
RECURSIVE AssembleAccesses(_, _, _)
AssembleAccesses(roots, acc_start, accesses) ==
    IF roots = <<>> THEN <<acc_start, accesses>>
    ELSE IF acc_start = None
         THEN AssembleAccesses(Tail(roots), Head(roots), accesses)
         ELSE AssembleAccesses(Tail(roots), None, Append(accesses, <<acc_start, Head(roots)>>))

\* The do-while's two exits (lines 293-297), for the current step h1 and the bounded step h2.
WithinTolerance(h1, h2) == ToleranceRatioInv * Abs(h2 - h1) <= h1
IterationsExhausted(h1, h2) == iter_num >= f_max_iter /\ h1 <= h2

\* Lines 268-282: the initial sub-interval, and whether the POI begins inside an access.
DetermineVisibilityBegin ==
    /\ f_pc = "new"
    /\ \E vis \in BOOLEAN :
          \* a POI of one instant: start_time is end_time, and so is the visibility there
          /\ f_interval[1] = f_interval[2] => vis = f_end_visible
          /\ f_vstart' = IF vis THEN "positive" ELSE "not positive"
          /\ access_start' = IF vis THEN f_interval[1] ELSE None
    /\ subinterval_start' = f_interval[1]
    /\ subinterval_end' = f_interval[1]
    /\ prev_time_step' = InitialTimeStep
    /\ sat_accesses' = <<>>
    /\ f_pc' = "loop"
    /\ UNCHANGED <<f_interval, f_max_iter, f_end_visible, new_time_step_1, iter_num, f_vend>>
    /\ UNCHANGED <<f_roots, f_examined>>
    /\ UNCHANGED notFinderVars

\* Lines 284-287: the outer loop's test, entering the step adaptation.
EnterSubinterval ==
    /\ f_pc = "loop"
    /\ subinterval_end < f_interval[2]
    /\ new_time_step_1' = prev_time_step
    /\ iter_num' = 0
    /\ f_pc' = "adapt"
    /\ UNCHANGED <<f_interval, f_max_iter, f_end_visible, subinterval_start, subinterval_end,
                   prev_time_step, access_start, sat_accesses, f_vstart, f_vend>>
    /\ UNCHANGED <<f_roots, f_examined>>
    /\ UNCHANGED notFinderVars

\* Lines 288-300: one pass of the do-while; new_time_step_2 is what
\* bound_time_step_error returned.
AdaptTimeStep ==
    /\ f_pc = "adapt"
    /\ \E new_time_step_2 \in TimeSteps :
          /\ subinterval_end' = subinterval_start + new_time_step_1
          /\ IF WithinTolerance(new_time_step_1, new_time_step_2)
                \/ IterationsExhausted(new_time_step_1, new_time_step_2)
             THEN /\ f_pc' = "roots"
                  /\ UNCHANGED <<new_time_step_1, iter_num>>
             ELSE /\ new_time_step_1' = new_time_step_2
                  /\ iter_num' = iter_num + 1
                  /\ f_pc' = "adapt"
    /\ UNCHANGED <<f_interval, f_max_iter, f_end_visible, subinterval_start, prev_time_step,
                   access_start, sat_accesses, f_vstart, f_vend>>
    /\ UNCHANGED <<f_roots, f_examined>>
    /\ UNCHANGED notFinderVars

\* A step that starts the next sub-interval one tick after the end of this one.
ProcessRootsLeavingGap ==
    /\ f_pc = "roots"
    /\ LET new_time_step == new_time_step_1
           sub_end == subinterval_start + new_time_step
       IN  /\ \E roots \in RootLists(subinterval_start, sub_end) :
                 LET out == AssembleAccesses(roots, access_start, sat_accesses)
                 IN  /\ access_start' = out[1]
                     /\ sat_accesses' = out[2]
                     /\ f_roots' = f_roots \o roots
           /\ f_examined' = Append(f_examined, <<subinterval_start, sub_end>>)
           /\ subinterval_end' = sub_end
           /\ subinterval_start' = sub_end + Tick
           /\ prev_time_step' = new_time_step
    /\ f_pc' = "loop"
    /\ UNCHANGED <<f_interval, f_max_iter, f_end_visible, new_time_step_1, iter_num, f_vstart,
                   f_vend>>
    /\ UNCHANGED notFinderVars

\* Lines 302-320: the roots of the Hermite cubic inside the sub-interval toggle the access.
ProcessRoots ==
    /\ f_pc = "roots"
    /\ LET new_time_step == new_time_step_1
           sub_end == subinterval_start + new_time_step
       IN  /\ \E roots \in RootLists(subinterval_start, sub_end) :
                 LET out == AssembleAccesses(roots, access_start, sat_accesses)
                 IN  /\ access_start' = out[1]
                     /\ sat_accesses' = out[2]
                     /\ f_roots' = f_roots \o roots
           /\ f_examined' = Append(f_examined, <<subinterval_start, sub_end>>)
           /\ subinterval_end' = sub_end
           /\ subinterval_start' = sub_end
           /\ prev_time_step' = new_time_step
    /\ f_pc' = "loop"
    /\ UNCHANGED <<f_interval, f_max_iter, f_end_visible, new_time_step_1, iter_num, f_vstart,
                   f_vend>>
    /\ UNCHANGED notFinderVars

\* An end of the loop that closes an open access at the end of the POI without looking
\* at the visibility there.
FinishVisibilityUnverified ==
    /\ f_pc = "loop"
    /\ ~(subinterval_end < f_interval[2])
    /\ IF access_start /= None
       THEN LET vis == f_end_visible IN
               /\ f_vend' = IF vis THEN "positive" ELSE "not positive"
               /\ f_pc' = "returned"
               /\ sat_accesses' = Append(sat_accesses, <<access_start, f_interval[2]>>)
       ELSE /\ f_pc' = "returned"
            /\ UNCHANGED <<sat_accesses, f_vend>>
    /\ UNCHANGED <<f_interval, f_max_iter, f_end_visible, subinterval_start, subinterval_end,
                   prev_time_step, new_time_step_1, iter_num, access_start, f_vstart>>
    /\ UNCHANGED <<f_roots, f_examined>>
    /\ UNCHANGED notFinderVars

\* Lines 322-331: the loop is over; an access still open must reach the end of the POI.
FinishVisibility ==
    /\ f_pc = "loop"
    /\ ~(subinterval_end < f_interval[2])
    /\ IF access_start /= None
       THEN LET vis == f_end_visible IN
               /\ f_vend' = IF vis THEN "positive" ELSE "not positive"
               /\ IF ~vis
                  THEN /\ f_pc' = "VisibilityFinderError"
                       /\ UNCHANGED sat_accesses
                  ELSE /\ f_pc' = "returned"
                       /\ sat_accesses' = Append(sat_accesses, <<access_start, f_interval[2]>>)
       ELSE /\ f_pc' = "returned"
            /\ UNCHANGED <<sat_accesses, f_vend>>
    /\ UNCHANGED <<f_interval, f_max_iter, f_end_visible, subinterval_start, subinterval_end,
                   prev_time_step, new_time_step_1, iter_num, access_start, f_vstart>>
    /\ UNCHANGED <<f_roots, f_examined>>
    /\ UNCHANGED notFinderVars

FinderNext ==
    \/ DetermineVisibilityBegin
    \/ EnterSubinterval
    \/ AdaptTimeStep
    \/ ProcessRoots
    \/ FinishVisibility

(***************************************************************************)
(* The search handlers (kaos/api/visibility.py) and ResponseHistory        *)
(***************************************************************************)

\* Bound: how many search requests one behaviour serves.
MaxRequests == 2

\* The one-day split of get_point_visibility_helper.
SecondsPerDay == 86400

\* The Satellite table, and a platform id that is not in it.
Satellites == {1, 2}
UnknownPlatform == CHOOSE p \in 1..(Cardinality(Satellites) + 1) : p \notin Satellites
\* Sites as <<lat, lon>>; the first two share their latitude.
Sites == {<<10, 20>>, <<10, 30>>, <<40, 50>>}
TargetAreas == {<< <<10, 20>>, <<10, 30>>, <<40, 50>> >>,
                << <<10, 30>>, <<40, 50>>, <<10, 20>> >>}
\* POI strings, by what utc_to_unix makes of them; BadTime is a string it rejects.
BadTime == -2
Pois == {<<0, 100000>>, <<0, 0>>, <<100000, 0>>, <<BadTime, 100000>>, <<0, BadTime>>}
PlatformLists == {<<1>>, <<1, UnknownPlatform>>}

\* The visibility function V of a satellite over a site: its sign at time 0 and the
\* times it crosses zero.  V(t) > 0 between an odd and an even crossing.
Patterns == {[init |-> FALSE, crossings |-> {}],
             [init |-> FALSE, crossings |-> {40500, 95500}],
             [init |-> FALSE, crossings |-> {110000, 140000}]}
VisibleAt(pattern, t) ==
    /\ t \notin pattern.crossings
    /\ pattern.init /= (Cardinality({c \in pattern.crossings : c < t}) % 2 = 1)
RECURSIVE SortedSeq(_)
SortedSeq(S) ==
    IF S = {} THEN <<>>
    ELSE LET m == CHOOSE x \in S : \A y \in S : x <= y
         IN  <<m>> \o SortedSeq(S \ {m})
\* What find_visibility returns for a sub-interval when the Hermite cubic is exact.
RootsIn(pattern, lo, hi) == SortedSeq({c \in pattern.crossings : lo <= c /\ c <= hi})

\* The step bound_time_step_error returns for the satellites and sites of the search
\* handlers' model: the step adaptation settles on it in every sub-interval.
AdaptedTimeStep == 43200

\* determine_visibility run to its end over `interval`, every sub-interval having the
\* adapted step.
RECURSIVE RunFinder(_, _, _, _, _)
RunFinder(pattern, interval, sub_end, acc_start, accesses) ==
    IF sub_end < interval[2]
    THEN LET next_end == sub_end + AdaptedTimeStep
             out == AssembleAccesses(RootsIn(pattern, sub_end, next_end), acc_start, accesses)
         IN  RunFinder(pattern, interval, next_end, out[1], out[2])
    ELSE IF acc_start /= None
         THEN IF ~VisibleAt(pattern, interval[2])
              THEN [error |-> "VisibilityFinderError", value |-> <<>>]
              ELSE [error |-> "none", value |-> Append(accesses, <<acc_start, interval[2]>>)]
         ELSE [error |-> "none", value |-> accesses]
determine_visibility(pattern, interval) ==
    RunFinder(pattern, interval, interval[1],
              IF VisibleAt(pattern, interval[1]) THEN interval[1] ELSE None, <<>>)

\* A split into whole days that does not cut the last window at end_time.
RECURSIVE PoiListWholeDays(_, _)
PoiListWholeDays(poi_start, end_time) ==
    IF poi_start >= end_time THEN <<>>
    ELSE <<<<poi_start, poi_start + SecondsPerDay>>>>
         \o PoiListWholeDays(poi_start + SecondsPerDay, end_time)

\* [TimeInterval(poi_start, min(poi_start + 86400, end_time))
\*  for poi_start in xrange(start_time, end_time, 86400)]
RECURSIVE PoiList(_, _)
PoiList(poi_start, end_time) ==
    IF poi_start >= end_time THEN <<>>
    ELSE <<<<poi_start, Min(poi_start + SecondsPerDay, end_time)>>>>
         \o PoiList(poi_start + SecondsPerDay, end_time)

\* The loop over reduced_poi_list: extend visibility_periods by each finder's result.
RECURSIVE ExtendPeriods(_, _, _)
ExtendPeriods(pattern, reduced_poi_list, visibility_periods) ==
    IF reduced_poi_list = <<>> THEN [error |-> "none", value |-> visibility_periods]
    ELSE LET found == determine_visibility(pattern, Head(reduced_poi_list))
         IN  IF found.error /= "none" THEN found
             ELSE ExtendPeriods(pattern, Tail(reduced_poi_list), visibility_periods \o found.value)

get_point_visibility_helper(pattern, poi) ==
    LET poi_list == PoiList(poi[1], poi[2])
        reduced_poi_list == poi_list
    IN  ExtendPeriods(pattern, reduced_poi_list, <<>>)

\* interval1.intersection(interval2) for every pair: the intervals are the plain tuples
\* determine_visibility appends, which have no such attribute.
calculate_common_intervals_helper(intervals1, intervals2) ==
    IF intervals1 /= <<>> /\ intervals2 /= <<>>
    THEN [error |-> "AttributeError", value |-> <<>>]
    ELSE [error |-> "none", value |-> <<>>]

RECURSIVE calculate_common_intervals(_)
calculate_common_intervals(intervals_list) ==
    IF Len(intervals_list) = 1 THEN [error |-> "none", value |-> intervals_list[1]]
    ELSE LET other_intervals == calculate_common_intervals(Tail(intervals_list))
         IN  IF other_intervals.error /= "none" THEN other_intervals
             ELSE calculate_common_intervals_helper(Head(intervals_list), other_intervals.value)

\* A request_parse_poi that lets a POI with start > end through.
request_parse_poi_unordered(req) ==
    IF req.poi[1] = BadTime \/ req.poi[2] = BadTime THEN "InputError POI" ELSE "ok"
\* request_parse_poi: "ok" or the InputError raised.
request_parse_poi(req) ==
    IF req.poi[1] = BadTime \/ req.poi[2] = BadTime \/ req.poi[1] > req.poi[2]
    THEN "InputError POI" ELSE "ok"
\* request_parse_platform_id
request_parse_platform_id(req) ==
    IF ~req.has_platform THEN [error |-> "ok", value |-> Satellites]
    ELSE IF \E i \in 1..Len(req.platform) : req.platform[i] \notin Satellites
         THEN [error |-> "InputError PlatformID", value |-> {}]
         ELSE [error |-> "ok", value |-> {req.platform[i] : i \in 1..Len(req.platform)}]

PointRequests == [kind : {"point"}, targets : {<<site>> : site \in Sites}, poi : Pois,
                  has_platform : {TRUE}, platform : PlatformLists]
                 \cup [kind : {"point"}, targets : {<<site>> : site \in Sites},
                       poi : Pois, has_platform : {FALSE}, platform : {<<>>}]
AreaRequests == [kind : {"area"}, targets : TargetAreas, poi : Pois,
                 has_platform : {TRUE}, platform : PlatformLists]
                \cup [kind : {"area"}, targets : TargetAreas,
                      poi : Pois, has_platform : {FALSE}, platform : {<<>>}]
NoRequest == [kind |-> "none", targets |-> <<>>, poi |-> <<0, 0>>,
              has_platform |-> FALSE, platform |-> <<>>]
NoResponse == [id |-> None, Opportunities |-> <<>>]

\* json.dumps(response): the document as the sequence of its keys and values.
Dumps(response) == <<"id", response.id, "Opportunities", response.Opportunities>>
\* The literal "{}" a new ResponseHistory row is created with.
EmptyDocument == <<>>

NotSeen == [uid |-> None, response |-> EmptyDocument]

Worlds == {w \in [Satellites -> [Sites -> Patterns]] :
              \A site \in Sites : w[2][site] = [init |-> FALSE, crossings |-> {}]}

ApiStart(worlds) ==
    /\ history = <<>>
    /\ a_pc = "idle"
    /\ a_req = NoRequest
    /\ a_truth \in worlds
    /\ a_vertex = <<>>
    /\ a_periods = <<>>
    /\ a_error = "none"
    /\ a_entry = 0
    /\ a_response = NoResponse
    /\ a_before = <<>>
    /\ a_served = 0
    /\ r_seen = NotSeen

CanServe == a_pc \in {"idle", "done", "failed"} /\ a_served < MaxRequests

\* Every helper result of the request: one record per satellite and target, in call order.
HelperResults(sats, req) ==
    [sat \in sats |-> [i \in 1..Len(req.targets) |->
        get_point_visibility_helper(a_truth[sat][req.targets[i]], req.poi)]]
HelperError(results) ==
    IF \E sat \in DOMAIN results : \E i \in DOMAIN results[sat] : results[sat][i].error /= "none"
    THEN "VisibilityFinderError" ELSE "none"

Fail(req, error) ==
    /\ a_pc' = "failed"
    /\ a_req' = req
    /\ a_error' = error
    /\ a_vertex' = <<>>
    /\ a_periods' = <<>>

\* get_satellite_visibility, lines 190-199: parse the request and search every satellite.
get_satellite_visibility ==
    /\ CanServe
    /\ \E req \in PointRequests :
          LET poi == request_parse_poi(req)
              satellites == request_parse_platform_id(req)
              results == HelperResults(satellites.value, req)
          IN  IF poi /= "ok" THEN Fail(req, poi)
              ELSE IF satellites.error /= "ok" THEN Fail(req, satellites.error)
              ELSE IF HelperError(results) /= "none" THEN Fail(req, HelperError(results))
              ELSE /\ a_pc' = "computed"
                   /\ a_req' = req
                   /\ a_error' = "none"
                   /\ a_vertex' = [sat \in satellites.value |-> <<results[sat][1].value>>]
                   /\ a_periods' = [sat \in satellites.value |-> results[sat][1].value]
    /\ a_before' = history
    /\ a_served' = a_served + 1
    /\ a_entry' = 0
    /\ a_response' = NoResponse
    /\ r_seen' = NotSeen
    /\ UNCHANGED <<history, a_truth>>
    /\ UNCHANGED notApiVars

\* target_visibility[target[0]] = ...: the dict keeps, per latitude, the last target's list.
TargetVisibility(targets, lists) ==
    [lat \in {targets[i][1] : i \in 1..Len(targets)} |->
        lists[CHOOSE i \in 1..Len(targets) :
                 /\ targets[i][1] = lat
                 /\ \A j \in 1..Len(targets) : targets[j][1] = lat => j <= i]]
\* target_visibility.values(): the lists in one of the orders a dict may yield them.
ValueOrders(target_visibility) ==
    {order \in SeqsUpTo(DOMAIN target_visibility, Cardinality(DOMAIN target_visibility)) :
        /\ Len(order) = Cardinality(DOMAIN target_visibility)
        /\ \A i, j \in 1..Len(order) : i /= j => order[i] /= order[j]}

\* get_area_visibility, lines 148-158: per satellite, the common intervals of its targets.
get_area_visibility ==
    /\ CanServe
    /\ \E req \in AreaRequests :
          LET satellites == request_parse_platform_id(req)
              poi == request_parse_poi(req)
              results == HelperResults(satellites.value, req)
              lists(sat) == [i \in 1..Len(req.targets) |-> results[sat][i].value]
              keys == {req.targets[i][1] : i \in 1..Len(req.targets)}
          IN  IF satellites.error /= "ok" THEN Fail(req, satellites.error)
              ELSE IF poi /= "ok" THEN Fail(req, poi)
              ELSE IF HelperError(results) /= "none" THEN Fail(req, HelperError(results))
              ELSE \E orders \in [satellites.value -> ValueOrders(TargetVisibility(req.targets, req.targets))] :
                      LET common(sat) ==
                              LET target_visibility == TargetVisibility(req.targets, lists(sat))
                              IN  calculate_common_intervals(
                                      [k \in 1..Len(orders[sat]) |-> target_visibility[orders[sat][k]]])
                      IN  /\ a_req' = req
                          /\ a_vertex' = [sat \in satellites.value |-> lists(sat)]
                          /\ IF \E sat \in satellites.value : common(sat).error /= "none"
                             THEN /\ a_pc' = "failed"
                                  /\ a_error' = "AttributeError"
                                  /\ a_periods' = <<>>
                             ELSE /\ a_pc' = "computed"
                                  /\ a_error' = "none"
                                  /\ a_periods' = [sat \in satellites.value |-> common(sat).value]
    /\ a_before' = history
    /\ a_served' = a_served + 1
    /\ a_entry' = 0
    /\ a_response' = NoResponse
    /\ r_seen' = NotSeen
    /\ UNCHANGED <<history, a_truth>>
    /\ UNCHANGED notApiVars

\* A table that hands out the uid of its last row again.
ReusedUid == IF history = <<>> THEN 1 ELSE Last(history).uid
\* The primary key the table gives a new row.
FreshUid == IF history = <<>> THEN 1 ELSE Last(history).uid + 1

\* Lines 160-163 and 201-204: response_history = ResponseHistory(response="{}"), saved
\* and committed.
PrepareResponse ==
    /\ a_pc = "computed"
    /\ history' = Append(history, [uid |-> FreshUid, response |-> EmptyDocument])
    /\ a_entry' = Len(history) + 1
    /\ a_pc' = "prepared"
    /\ UNCHANGED <<a_req, a_truth, a_vertex, a_periods, a_error, a_response, a_before,
                   a_served, r_seen>>
    /\ UNCHANGED notApiVars

\* The Opportunities comprehension: one document per access of each satellite.  Reading
\* access.start of a plain tuple raises AttributeError.
RECURSIVE Opportunities(_, _)
Opportunities(periods, sats) ==
    IF sats = {} THEN [error |-> "none", value |-> <<>>]
    ELSE LET sat == CHOOSE x \in sats : \A y \in sats : x <= y
         IN  IF periods[sat] /= <<>> THEN [error |-> "AttributeError", value |-> <<>>]
             ELSE Opportunities(periods, sats \ {sat})

\* Lines 165-179 and 206-220: build the response, store its serialization in the row,
\* commit, and return it.
SaveResponse ==
    /\ a_pc = "prepared"
    /\ LET opportunities == Opportunities(a_periods, DOMAIN a_periods)
           response == [id |-> history[a_entry].uid, Opportunities |-> opportunities.value]
       IN  IF opportunities.error /= "none"
           THEN /\ a_pc' = "failed"
                /\ a_error' = opportunities.error
                /\ UNCHANGED <<history, a_response>>
           ELSE /\ history' = [history EXCEPT ![a_entry].response = Dumps(response)]
                /\ a_response' = response
                /\ a_pc' = "done"
                /\ UNCHANGED a_error
    /\ UNCHANGED <<a_req, a_truth, a_vertex, a_periods, a_entry, a_before, a_served, r_seen>>
    /\ UNCHANGED notApiVars

\* A concurrent reader of the table looks up the row of the request in flight.
ReadHistory ==
    /\ a_entry /= 0
    /\ r_seen' = history[a_entry]
    /\ UNCHANGED <<history, a_pc, a_req, a_truth, a_vertex, a_periods, a_error, a_entry,
                   a_response, a_before, a_served>>
    /\ UNCHANGED notApiVars

\* The row of the Satellite table with the primary key, None when there is none.
NoRow == [table |-> "none", key |-> None, response |-> EmptyDocument]
SatelliteQueryGet(key) ==
    IF key \in Satellites
    THEN [table |-> "Satellite", key |-> key, response |-> EmptyDocument]
    ELSE NoRow
\* ResponseHistory.get_by_id(uid): return Satellite.query.get(uid).
ResponseHistoryGetById(uid) == SatelliteQueryGet(uid)

NoLookup == [uid |-> None, row |-> NoRow]
LookupStart == g_last = NoLookup
\* A caller looks a response up by its uid once the requests have been served.
GetById ==
    /\ a_pc \in {"idle", "done", "failed"}
    /\ a_served = MaxRequests
    /\ \E uid \in 1..(MaxRequests + 1) :
          g_last' = [uid |-> uid, row |-> ResponseHistoryGetById(uid)]
    /\ UNCHANGED <<apiVars, finderVars, storeVars, parserVars, intervalVars, coneVars,
                   clockVars, windowVars>>

ApiNext ==
    \/ GetById
    \/ get_satellite_visibility
    \/ get_area_visibility
    \/ PrepareResponse
    \/ SaveResponse
    \/ ReadHistory

(***************************************************************************)
(* OrbitSegment / OrbitRecord (kaos/models), add_segment_to_db and the     *)
(* Interpolator                                                            *)
(***************************************************************************)

\* Bounds: sample times are 0..MaxSampleTime, the table holds up to MaxSegments segments.
MaxSampleTime == 2
MaxSegments == 2

SampleTimes == 0..MaxSampleTime
\* An OrbitPoint: its time, and `row` standing for its position and velocity.
OrbitPoint(time, row) == [time |-> time, row |-> row]
\* Segments handed to add_segment_to_db: samples in ascending time, one at least.
OrbitDatas == {[i \in 1..Len(SortedSeq(S)) |-> OrbitPoint(SortedSeq(S)[i], 0)] :
                  S \in (SUBSET SampleTimes) \ {{}}}

\* The filter of add_segment_to_db, for one stored segment: the or_ of the three and_.
OverlapsStored(segment_start, segment_end, stored) ==
    \/ (segment_start < stored.start_time /\ segment_end > stored.start_time)
    \/ (segment_start < stored.end_time /\ segment_end > stored.end_time)
    \/ (segment_start = stored.start_time /\ segment_end = stored.end_time)

\* add_segment_to_db on the tables <<segs, recs>>: the tables after the call and what the
\* call did.
add_segment_to_db(segs, recs, orbit_data, satellite_id) ==
    IF satellite_id < 0
    THEN [segments |-> segs, records |-> recs, outcome |-> "negative id"]
    ELSE IF orbit_data = <<>>
    THEN [segments |-> segs, records |-> recs, outcome |-> "IndexError"]
    ELSE LET segment_start == orbit_data[1].time
             segment_end == Last(orbit_data).time
             segment_id == Len(segs) + 1
         IN  IF \E i \in 1..Len(segs) :
                    /\ segs[i].platform_id = satellite_id
                    /\ OverlapsStored(segment_start, segment_end, segs[i])
             THEN [segments |-> segs, records |-> recs, outcome |-> "aborted"]
             ELSE [segments |-> Append(segs, [segment_id |-> segment_id,
                                              platform_id |-> satellite_id,
                                              start_time |-> segment_start,
                                              end_time |-> segment_end]),
                   records |-> recs \o [i \in 1..Len(orbit_data) |->
                                           [platform_id |-> satellite_id,
                                            segment_id |-> segment_id,
                                            time |-> orbit_data[i].time,
                                            row |-> orbit_data[i].row]],
                   outcome |-> "stored"]

\* A lookup that orders the qualifying segments by ascending start_time.
get_by_platform_and_time_asc(segs, platform_id, timestamp) ==
    LET matching == {i \in 1..Len(segs) :
                        /\ segs[i].platform_id = platform_id
                        /\ segs[i].start_time <= timestamp
                        /\ segs[i].end_time >= timestamp}
    IN  {segs[i] : i \in {j \in matching :
                             \A k \in matching : segs[k].start_time >= segs[j].start_time}}

\* OrbitSegment.get_by_platform_and_time: the rows .first() can return, i.e. the rows of
\* the filter that come first under order_by(start_time.desc()); empty when it returns None.
get_by_platform_and_time(segs, platform_id, timestamp) ==
    LET matching == {i \in 1..Len(segs) :
                        /\ segs[i].platform_id = platform_id
                        /\ segs[i].start_time <= timestamp
                        /\ segs[i].end_time >= timestamp}
    IN  {segs[i] : i \in {j \in matching :
                             \A k \in matching : segs[k].start_time <= segs[j].start_time}}

\* OrbitRecord.get_by_segment: the records of the segment, ordered by time.
RECURSIVE SortByTime(_)
SortByTime(rs) ==
    IF Len(rs) <= 1 THEN rs
    ELSE LET m == CHOOSE i \in 1..Len(rs) : \A j \in 1..Len(rs) :
                      rs[i].time < rs[j].time \/ (rs[i].time = rs[j].time /\ i <= j)
         IN  <<rs[m]>> \o SortByTime(SubSeq(rs, 1, m - 1) \o SubSeq(rs, m + 1, Len(rs)))
get_by_segment(recs, segment_id) ==
    SortByTime(SelectSeq(recs, LAMBDA r : r.segment_id = segment_id))

\* A lookup that caches the segment's records before it counts them.
LoadSegmentRecordsCachedFirst(memo, recs, segment_id) ==
    LET segment_records == get_by_segment(recs, segment_id)
        cached == [id \in DOMAIN memo \cup {segment_id} |->
                      IF id = segment_id
                      THEN [k \in 1..Len(segment_records) |-> segment_records[k].time]
                      ELSE memo[id]]
    IN  IF segment_id \in DOMAIN memo THEN [error |-> "none", memo |-> memo]
        ELSE IF Len(segment_records) < 2
             THEN [error |-> "No orbit records found", memo |-> cached]
             ELSE [error |-> "none", memo |-> cached]

\* Lines 102-117 of Interpolator.interpolate: the memo after the segment's records are
\* looked up, and the error raised if they are too few.
LoadSegmentRecords(memo, recs, segment_id) ==
    IF segment_id \notin DOMAIN memo
    THEN LET segment_records == get_by_segment(recs, segment_id)
         IN  IF Len(segment_records) < 2
             THEN [error |-> "No orbit records found", memo |-> memo]
             ELSE [error |-> "none",
                   memo |-> [id \in DOMAIN memo \cup {segment_id} |->
                                IF id = segment_id
                                THEN [k \in 1..Len(segment_records) |-> segment_records[k].time]
                                ELSE memo[id]]]
    ELSE [error |-> "none", memo |-> memo]

NoCall == [timestamp |-> None, segment_id |-> None, error |-> "no call", memo_before |-> <<>>]

\* Empty tables; `platform` is the interpolator's platform_id (None: none constructed).
StoreStart(platform) ==
    /\ segments = <<>>
    /\ records = <<>>
    /\ i_platform = platform
    /\ i_memo = <<>>
    /\ i_last = NoCall

\* One call of add_segment_to_db.
AddSegmentToDb ==
    /\ Len(segments) < MaxSegments
    /\ \E orbit_data \in OrbitDatas, satellite_id \in Satellites \cup {None} :
          LET after == add_segment_to_db(segments, records, orbit_data, satellite_id)
          IN  /\ segments' = after.segments
              /\ records' = after.records
    /\ i_last' = NoCall
    /\ UNCHANGED <<i_platform, i_memo>>
    /\ UNCHANGED notStoreVars

\* Interpolator.__init__ (lines 14-22) for a known platform; an unknown one raises
\* ValueError and no interpolator exists.
NewInterpolator ==
    /\ \E platform_id \in Satellites \cup {UnknownPlatform} :
          /\ platform_id \in Satellites
          /\ i_platform' = platform_id
    /\ i_memo' = <<>>
    /\ i_last' = NoCall
    /\ UNCHANGED <<segments, records>>
    /\ UNCHANGED notStoreVars

\* Interpolator.interpolate(timestamp), lines 97-127.
Interpolate ==
    /\ i_platform /= None
    /\ \E timestamp \in SampleTimes :
          LET found == get_by_platform_and_time(segments, i_platform, timestamp)
          IN  IF found = {}
              THEN /\ i_last' = [timestamp |-> timestamp, segment_id |-> None,
                                 error |-> "No segment found", memo_before |-> i_memo]
                   /\ UNCHANGED i_memo
              ELSE \E segment \in found :
                      LET loaded == LoadSegmentRecords(i_memo, records, segment.segment_id)
                      IN  /\ i_memo' = loaded.memo
                          /\ i_last' = [timestamp |-> timestamp,
                                        segment_id |-> segment.segment_id,
                                        error |-> loaded.error, memo_before |-> i_memo]
    /\ UNCHANGED <<segments, records, i_platform>>
    /\ UNCHANGED notStoreVars

StoreNext ==
    \/ AddSegmentToDb
    \/ NewInterpolator
    \/ Interpolate

(***************************************************************************)
(* parse_ephemeris_file (kaos/models/parser.py)                            *)
(***************************************************************************)

\* Bound: boundary and sample times of a file are offsets 0..MaxFileTime from its epoch.
MaxFileTime == 3

\* jdate_to_unix of the file's "Epoch in JDate format" header.
Epochs == {100}
\* The platform_id the Satellite row of the file is given.
NewPlatform == 1

\* The lines of a file, by which of the parser's markers they contain:
\*   "epoch"             Epoch in JDate format: <jdate>
\*   "begin_boundaries"  BEGIN SegmentBoundaryTimes
\*   "end_boundaries"    END SegmentBoundaryTimes
\*   "begin_data"        EphemerisTimePosVel
\*   "end_block"         END EphemerisTimePosVel
\*   "end_ephemeris"     END Ephemeris
\*   "number"            a line of numbers, the first being `value`
\*   "blank"             an empty line
Line(kind, value) == [kind |-> kind, value |-> value]
HasEpoch(line) == line.kind = "epoch"
HasEndBoundaries(line) == line.kind = "end_boundaries"
HasBeginBoundaries(line) == line.kind = "begin_boundaries"
HasEndEphemeris(line) == line.kind \in {"end_ephemeris", "end_block"}
HasTimePosVel(line) == line.kind \in {"begin_data", "end_block"}

\* The sample rows of a file with boundaries B and samples at the given times, ascending;
\* when `repeated`, every interior boundary that is sampled is on two consecutive rows.
RECURSIVE SampleRows(_, _, _)
SampleRows(times, B, repeated) ==
    IF times = <<>> THEN <<>>
    ELSE LET t == Head(times)
             interior == t \in B /\ (\E b \in B : b < t) /\ (\E b \in B : b > t)
         IN  (IF interior /\ repeated THEN <<Line("number", t), Line("number", t)>>
              ELSE <<Line("number", t)>>) \o SampleRows(Tail(times), B, repeated)

FileLines(epoch, B, S, repeated, end_kind) ==
    <<Line("epoch", epoch), Line("begin_boundaries", 0)>>
    \o [i \in 1..Cardinality(B) |-> Line("number", SortedSeq(B)[i])]
    \o <<Line("end_boundaries", 0), Line("blank", 0), Line("begin_data", 0)>>
    \o SampleRows(SortedSeq(S), B, repeated)
    \o <<Line(end_kind, 0)>>

FileTimes == 0..MaxFileTime
BoundarySets == {B \in SUBSET FileTimes : Cardinality(B) >= 2}
\* What follows the end line of the block: nothing, or one more line of numbers.
Trailers == {<<>>, <<Line("number", 0)>>}
FilesWith(B) ==
    {[boundaries |-> B, samples |-> S, repeated |-> repeated,
      lines |-> FileLines(epoch, B, S, repeated, end_kind) \o trailer] :
        epoch \in Epochs,
        S \in (SUBSET FileTimes) \ {{}},
        repeated \in BOOLEAN,
        end_kind \in {"end_ephemeris", "end_block"},
        trailer \in Trailers}
Files == UNION {FilesWith(B) : B \in BoundarySets}

ParserStart(files) ==
    /\ p_pc = "reading"
    /\ p_file \in files
    /\ p_line = 1
    /\ p_epoch = 0
    /\ segment_boundaries = <<>>
    /\ segment_tuples = <<>>
    /\ read_segment_boundaries = FALSE
    /\ read_orbital_data = FALSE
    /\ last_seen_segment_boundary = 0
    /\ p_segments = <<>>
    /\ p_records = <<>>
    /\ p_after_end = 0

InSeq(x, seq) == \E i \in 1..Len(seq) : seq[i] = x

\* The body of "for line in f" (lines 86-138) for the next line of the file.
ParseLine ==
    /\ p_pc = "reading"
    /\ p_line <= Len(p_file.lines)
    /\ LET line == p_file.lines[p_line]
           \* lines 88-91
           start_time == IF HasEpoch(line) THEN line.value ELSE p_epoch
           last_seen_1 == IF HasEpoch(line) THEN line.value ELSE last_seen_segment_boundary
           \* lines 97-98
           read_boundaries_1 == read_segment_boundaries /\ ~HasEndBoundaries(line)
           \* lines 100-103
           boundary_error == read_boundaries_1 /\ line.kind \notin {"number", "blank"}
           boundaries_1 == IF read_boundaries_1 /\ line.kind = "number"
                           THEN Append(segment_boundaries, start_time + line.value)
                           ELSE segment_boundaries
           \* lines 105-106
           read_boundaries_2 == read_boundaries_1 \/ HasBeginBoundaries(line)
           \* lines 108-110
           at_end == add_segment_to_db(p_segments, p_records, segment_tuples, NewPlatform)
           end_error == HasEndEphemeris(line) /\ at_end.outcome = "IndexError"
           segments_1 == IF HasEndEphemeris(line) THEN at_end.segments ELSE p_segments
           records_1 == IF HasEndEphemeris(line) THEN at_end.records ELSE p_records
           read_data_1 == read_orbital_data /\ ~HasEndEphemeris(line)
           \* lines 112-118
           row_error == read_data_1 /\ line.kind \notin {"number", "blank"}
           is_row == read_data_1 /\ line.kind = "number"
           orbit_tuple == OrbitPoint(start_time + line.value, p_line)
           tuples_1 == IF is_row THEN Append(segment_tuples, orbit_tuple) ELSE segment_tuples
           \* lines 127-131
           closes == /\ is_row
                     /\ InSeq(orbit_tuple.time, boundaries_1)
                     /\ last_seen_1 /= orbit_tuple.time
           at_boundary == add_segment_to_db(segments_1, records_1, tuples_1, NewPlatform)
           \* lines 133-134
           read_data_2 == read_data_1 \/ HasTimePosVel(line)
       IN  IF boundary_error \/ (~boundary_error /\ ~end_error /\ row_error)
           THEN /\ p_pc' = "ValueError"
                /\ UNCHANGED <<p_line, p_epoch, segment_boundaries, segment_tuples,
                               read_segment_boundaries, read_orbital_data,
                               last_seen_segment_boundary, p_segments, p_records, p_after_end>>
           ELSE IF end_error
           THEN /\ p_pc' = "IndexError"
                /\ p_epoch' = start_time
                /\ last_seen_segment_boundary' = last_seen_1
                /\ segment_boundaries' = boundaries_1
                /\ read_segment_boundaries' = read_boundaries_2
                /\ UNCHANGED <<p_line, segment_tuples, read_orbital_data, p_segments,
                               p_records, p_after_end>>
           ELSE /\ p_pc' = "reading"
                /\ p_line' = p_line + 1
                /\ p_epoch' = start_time
                /\ segment_boundaries' = boundaries_1
                /\ read_segment_boundaries' = read_boundaries_2
                /\ read_orbital_data' = read_data_2
                /\ last_seen_segment_boundary' = IF closes THEN orbit_tuple.time ELSE last_seen_1
                /\ segment_tuples' = IF closes THEN <<>> ELSE tuples_1
                /\ p_segments' = IF closes THEN at_boundary.segments ELSE segments_1
                /\ p_records' = IF closes THEN at_boundary.records ELSE records_1
                /\ p_after_end' = IF is_row /\ (\E k \in 1..(p_line - 1) :
                                                    HasEndEphemeris(p_file.lines[k]))
                                  THEN p_after_end + 1 ELSE p_after_end
    /\ UNCHANGED p_file
    /\ UNCHANGED notParserVars

\* The file is exhausted: the closing DB.session.commit() (line 139).
FinishParse ==
    /\ p_pc = "reading"
    /\ p_line > Len(p_file.lines)
    /\ p_pc' = "parsed"
    /\ UNCHANGED <<p_file, p_line, p_epoch, segment_boundaries, segment_tuples,
                   read_segment_boundaries, read_orbital_data, last_seen_segment_boundary,
                   p_segments, p_records, p_after_end>>
    /\ UNCHANGED notParserVars

ParserNext ==
    \/ ParseLine
    \/ FinishParse

(***************************************************************************)
(* trim_poi_segments and fuse_neighbor_intervals                           *)
(* (kaos/utils/time_intervals.py)                                          *)
(***************************************************************************)

\* Bounds: interval borders are 0..MaxIntervalTime; lists hold up to MaxIntervals
\* intervals, those handed to trim_poi_segments up to MaxTrimIntervals.
MaxIntervalTime == 3
MaxIntervals == 3
MaxTrimIntervals == 2

\* TimeInterval(start, end) as <<start, end>>, start <= end.
TimeIntervals == {iv \in (0..MaxIntervalTime) \X (0..MaxIntervalTime) : iv[1] <= iv[2]}
IntervalLists == SeqsUpTo(TimeIntervals, MaxIntervals)
NoPoi == <<None, None>>

\* trim_poi_segments: the loop over interval_list, with its four branches.
RECURSIVE trim_poi_segments(_, _)
trim_poi_segments(interval_list, poi) ==
    IF interval_list = <<>> THEN <<>>
    ELSE LET interval == Head(interval_list)
             rest == trim_poi_segments(Tail(interval_list), poi)
         IN  IF interval[1] > poi[2] \/ interval[2] < poi[1]
             THEN rest
             ELSE IF interval[1] < poi[2] /\ interval[2] > poi[2]
             THEN <<<<interval[1], poi[2]>>>> \o rest
             ELSE IF interval[2] > poi[1] /\ interval[1] < poi[1]
             THEN <<<<poi[1], interval[2]>>>> \o rest
             ELSE <<<<interval[1], interval[2]>>>> \o rest

\* input_list.sort(key=lambda x: x.start): list.sort is stable.
RECURSIVE SortByStart(_)
SortByStart(list) ==
    IF Len(list) <= 1 THEN list
    ELSE LET m == CHOOSE i \in 1..Len(list) : \A j \in 1..Len(list) :
                      list[i][1] < list[j][1] \/ (list[i][1] = list[j][1] /\ i <= j)
         IN  <<list[m]>> \o SortByStart(SubSeq(list, 1, m - 1) \o SubSeq(list, m + 1, Len(list)))

\* pairwise(iterable): appends None to the caller's list; the pairs are
\* (s0, s1), ..., (sn, None).
pairwise(iterable) == Append(iterable, <<None>>)

\* A loop that fuses an interval with its next neighbour only, and skips that neighbour.
RECURSIVE FusePairsSkipping(_, _, _, _)
FusePairsSkipping(pairs, k, fused_interval_start, output_list) ==
    IF k >= Len(pairs) THEN output_list
    ELSE LET i == pairs[k]
             j == pairs[k + 1]
         IN  IF j /= <<None>> /\ i[2] = j[1]
             THEN FusePairsSkipping(pairs, k + 2, None, Append(output_list, <<i[1], j[2]>>))
             ELSE FusePairsSkipping(pairs, k + 1, None, Append(output_list, <<i[1], i[2]>>))

\* The loop of fuse_neighbor_intervals over the pairs (i, j) from the k-th on.
RECURSIVE FusePairs(_, _, _, _)
FusePairs(pairs, k, fused_interval_start, output_list) ==
    IF k >= Len(pairs) THEN output_list
    ELSE LET i == pairs[k]
             j == pairs[k + 1]
         IN  IF j /= <<None>> /\ i[2] = j[1]
             THEN FusePairs(pairs, k + 1,
                            IF fused_interval_start = None THEN i[1] ELSE fused_interval_start,
                            output_list)
             ELSE IF fused_interval_start /= None
             THEN FusePairs(pairs, k + 1, None,
                            Append(output_list, <<fused_interval_start, i[2]>>))
             ELSE FusePairs(pairs, k + 1, None, Append(output_list, <<i[1], i[2]>>))

\* fuse_neighbor_intervals that takes its input to be sorted already.
fuse_neighbor_intervals_unsorted(input_list) ==
    FusePairs(pairwise(input_list), 1, None, <<>>)

\* fuse_neighbor_intervals(input_list) with assume_sorted=False: the list returned.
fuse_neighbor_intervals(input_list) ==
    FusePairs(pairwise(SortByStart(input_list)), 1, None, <<>>)

IntervalStart(lists) ==
    /\ t_pc = "new"
    /\ t_list \in lists
    /\ t_poi = NoPoi
    /\ t_out = <<>>
    /\ t_again = <<>>

\* trim_poi_segments(t_list, poi) for a poi with poi.start <= poi.end.
TrimPoiSegments ==
    /\ t_pc = "new"
    /\ Len(t_list) <= MaxTrimIntervals
    /\ \E poi \in TimeIntervals :
          /\ t_poi' = poi
          /\ t_out' = trim_poi_segments(t_list, poi)
    /\ t_pc' = "trimmed"
    /\ UNCHANGED <<t_list, t_again>>
    /\ UNCHANGED notIntervalVars

\* trim_poi_segments applied to its own result, with the same poi.
TrimAgain ==
    /\ t_pc = "trimmed"
    /\ t_again' = trim_poi_segments(t_out, t_poi)
    /\ t_pc' = "trimmed twice"
    /\ UNCHANGED <<t_list, t_poi, t_out>>
    /\ UNCHANGED notIntervalVars

\* fuse_neighbor_intervals(t_list): the caller's list is left sorted, with None appended.
FuseNeighborIntervals ==
    /\ t_pc = "new"
    /\ t_out' = fuse_neighbor_intervals(t_list)
    /\ t_list' = pairwise(SortByStart(t_list))
    /\ t_pc' = "fused"
    /\ UNCHANGED <<t_poi, t_again>>
    /\ UNCHANGED notIntervalVars

\* fuse_neighbor_intervals applied to its own result.
FuseAgain ==
    /\ t_pc = "fused"
    /\ t_again' = fuse_neighbor_intervals(t_out)
    /\ t_pc' = "fused twice"
    /\ UNCHANGED <<t_list, t_poi, t_out>>
    /\ UNCHANGED notIntervalVars

IntervalNext ==
    \/ TrimPoiSegments
    \/ TrimAgain
    \/ FuseNeighborIntervals
    \/ FuseAgain

(***************************************************************************)
(* reduce_poi (kaos/algorithm/view_cone.py)                                *)
(***************************************************************************)

\* Bound: a POI ends at most MaxPoiQuarters quarter days after time 0.
MaxPoiQuarters == 9

QuarterDay == SecondsPerDay \div 4
\* The times _view_cone_calc returns: angles mapped to 0..2*pi, as seconds of the day.
\* It adds 2*pi*m and maps back, so the offsets of every day m are those of day 0,
\* each below one day (2*pi is one sidereal day).
RootOffsets == {k * QuarterDay : k \in 0..3}
\* _view_cone_calc raises ValueError: fewer than four real roots.
NoRoots == <<>>
RootCombinations == (RootOffsets \X RootOffsets \X RootOffsets \X RootOffsets) \cup {NoRoots}
ConePois == {<<start, k * QuarterDay>> : start \in {0, QuarterDay}, k \in 0..MaxPoiQuarters}

\* mp.ceil((poi.end - poi.start) / (24 * 60 * 60)), for poi.start <= poi.end.
ExpectedFinalM(poi) == (poi[2] - poi[1] + SecondsPerDay - 1) \div SecondsPerDay

\* The intervals lines 63-75 append for day m.
DayIntervals(roots, poi, m) ==
    LET t_1 == roots[1]
        t_2 == roots[2]
        t_3 == roots[3]
        t_4 == roots[4]
    IN  (IF t_3 < t_1
         THEN <<<<poi[1] + t_3, poi[1] + t_1>>>>
         ELSE <<<<poi[1] + m * SecondsPerDay, poi[1] + t_1>>,
                <<poi[1] + t_3, poi[1] + (m + 1) * SecondsPerDay>>>>)
        \o
        (IF t_2 < t_4
         THEN <<<<poi[1] + t_2, poi[1] + t_4>>>>
         ELSE <<<<poi[1] + m * SecondsPerDay, poi[1] + t_4>>,
                <<poi[1] + t_2, poi[1] + (m + 1) * SecondsPerDay>>>>)
\* Line 77: both pairs are taken to wrap around.
UnexpectedWrap(roots) == roots[2] > roots[4] /\ roots[3] > roots[1]

\* The while loop of reduce_poi from day m on.
RECURSIVE ReduceDays(_, _, _, _)
ReduceDays(roots, poi, m, interval_list) ==
    IF ~(m < ExpectedFinalM(poi)) THEN [error |-> "none", value |-> interval_list]
    ELSE IF roots = NoRoots THEN [error |-> "ViewConeError", value |-> <<>>]
    ELSE IF UnexpectedWrap(roots) THEN [error |-> "ViewConeError", value |-> <<>>]
    ELSE ReduceDays(roots, poi, m + 1, interval_list \o DayIntervals(roots, poi, m))

reduce_poi(roots, poi) ==
    IF poi[1] > poi[2] THEN [error |-> "ValueError", value |-> <<>>]
    ELSE LET found == ReduceDays(roots, poi, 0, <<>>)
         IN  IF found.error /= "none" THEN found
             ELSE [error |-> "none", value |-> trim_poi_segments(found.value, poi)]

\* The offsets of a day at which the orbit is inside the viewing cone: between t_3 and
\* t_1 and between t_2 and t_4, around the day boundary when the pair wraps.
InsideCone(roots, x) ==
    \/ IF roots[3] < roots[1] THEN roots[3] <= x /\ x <= roots[1]
                              ELSE x <= roots[1] \/ roots[3] <= x
    \/ IF roots[2] < roots[4] THEN roots[2] <= x /\ x <= roots[4]
                              ELSE x <= roots[4] \/ roots[2] <= x
\* The times of the POI at which the satellite can be visible (V(t) >= 0): those inside
\* the viewing cone of their day.
PossiblyVisible(roots, poi) ==
    IF roots = NoRoots \/ poi[1] > poi[2] THEN {}
    ELSE {t \in {poi[1] + k * QuarterDay : k \in 0..MaxPoiQuarters} :
             /\ t <= poi[2]
             /\ \E m \in 0..(ExpectedFinalM(poi) - 1) :
                   /\ poi[1] + m * SecondsPerDay <= t
                   /\ t <= poi[1] + (m + 1) * SecondsPerDay
                   /\ InsideCone(roots, t - poi[1] - m * SecondsPerDay)}

\* Lines 53-61: the roots of all samples that give the largest intervals.
SeqMax(column) == CHOOSE x \in {column[i] : i \in DOMAIN column} :
                     \A i \in DOMAIN column : column[i] <= x
SeqMin(column) == CHOOSE x \in {column[i] : i \in DOMAIN column} :
                     \A i \in DOMAIN column : x <= column[i]
CombineRoots(samples) ==
    IF \E i \in DOMAIN samples : samples[i] = NoRoots THEN NoRoots
    ELSE <<SeqMax([i \in DOMAIN samples |-> samples[i][1]]),
           SeqMin([i \in DOMAIN samples |-> samples[i][2]]),
           SeqMin([i \in DOMAIN samples |-> samples[i][3]]),
           SeqMax([i \in DOMAIN samples |-> samples[i][4]])>>
SingleSamples == {<<roots>> : roots \in RootCombinations}
\* Two (position, velocity) pairs for which _view_cone_calc finds four real roots.
SamplePairs == {<<first, second>> : first, second \in RootCombinations \ {NoRoots}}

ConeStart(pois, sample_lists, with_seen) ==
    /\ v_pc = "new"
    /\ v_poi \in pois
    /\ v_samples \in sample_lists
    /\ v_roots = CombineRoots(v_samples)
    /\ v_emitted = <<>>
    /\ v_out = <<>>
    /\ v_seen \in (IF with_seen THEN PossiblyVisible(v_roots, v_poi) ELSE {}) \cup {None}

\* One call of reduce_poi.
ReducePoi ==
    /\ v_pc = "new"
    /\ LET reduced == reduce_poi(v_roots, v_poi)
       IN  /\ v_pc' = IF reduced.error = "none" THEN "reduced" ELSE reduced.error
           /\ v_out' = reduced.value
           /\ v_emitted' = IF reduced.error /= "none" THEN <<>>
                           ELSE [k \in 1..ExpectedFinalM(v_poi) |->
                                    DayIntervals(v_roots, v_poi, k - 1)]
    /\ UNCHANGED <<v_poi, v_samples, v_roots, v_seen>>
    /\ UNCHANGED notConeVars

ConeNext ==
    \/ ReducePoi

(***************************************************************************)
(* utc_to_unix (kaos/utils/time_conversion.py)                             *)
(***************************************************************************)

\* Bound: the latest year of a time string.
MaxYear == 1971

EpochYear == 1970
Years == (EpochYear - 1)..MaxYear
\* A time string 'YYYYMMDD<sep>HH:MM:SS.<fraction>': its two-digit fields as numbers, the
\* separator, the number of fraction digits and the fraction in microseconds.
TimeStrings ==
    [year : Years, month : {0, 1, 2, 12, 13}, day : {0, 1, 28, 29, 31, 32},
     hour : {0, 23, 24}, minute : {0, 59, 60}, second : {0, 59, 60},
     sep : {"T", "A"}, digits : {0, 1, 3, 6, 7}, microsecond : {0, 999000}]
RestString ==
    [year |-> EpochYear, month |-> 1, day |-> 1, hour |-> 0, minute |-> 0, second |-> 0,
     sep |-> "T", digits |-> 3, microsecond |-> 0]

IsLeap(year) == year % 4 = 0 /\ (year % 100 /= 0 \/ year % 400 = 0)
DaysInMonth(year, month) ==
    IF month = 2 THEN (IF IsLeap(year) THEN 29 ELSE 28)
    ELSE IF month \in {4, 6, 9, 11} THEN 30 ELSE 31
DaysInYear(year) == IF IsLeap(year) THEN 366 ELSE 365

\* datetime.datetime.strptime(time_string, '%Y%m%dT%H:%M:%S.%f') raises ValueError: the
\* string does not match the format, data remains after it, or the fields are no date.
StrptimeFails(time_string) ==
    \/ time_string.sep /= "T"
    \/ time_string.digits < 1
    \/ time_string.digits > 6
    \/ time_string.month < 1
    \/ time_string.month > 12
    \/ time_string.day < 1
    \/ time_string.day > DaysInMonth(time_string.year, time_string.month)
    \/ time_string.hour > 23
    \/ time_string.minute > 59
    \/ time_string.second > 59

\* Days from 1970-01-01 to the first day of the year (negative before 1970).
RECURSIVE DaysToYear(_)
DaysToYear(year) ==
    IF year = EpochYear THEN 0
    ELSE IF year > EpochYear THEN DaysToYear(year - 1) + DaysInYear(year - 1)
    ELSE DaysToYear(year + 1) - DaysInYear(year)
RECURSIVE DaysToMonth(_, _)
DaysToMonth(year, month) ==
    IF month = 1 THEN 0 ELSE DaysToMonth(year, month - 1) + DaysInMonth(year, month - 1)
\* calendar.timegm(date_time.utctimetuple()): the time tuple carries no microseconds.
timegm(time_string) ==
    LET days == DaysToYear(time_string.year)
                    + DaysToMonth(time_string.year, time_string.month)
                    + time_string.day - 1
    IN  ((days * 24 + time_string.hour) * 60 + time_string.minute) * 60 + time_string.second

utc_to_unix(time_string) ==
    IF StrptimeFails(time_string) THEN [error |-> "ValueError", value |-> None]
    ELSE [error |-> "none", value |-> timegm(time_string)]

ClockStart(strings) ==
    /\ c_pc = "new"
    /\ c_string \in strings
    /\ c_out = None

\* One call of utc_to_unix.
UtcToUnix ==
    /\ c_pc = "new"
    /\ LET converted == utc_to_unix(c_string)
       IN  /\ c_pc' = IF converted.error = "none" THEN "returned" ELSE converted.error
           /\ c_out' = converted.value
    /\ UNCHANGED c_string
    /\ UNCHANGED notClockVars

ClockNext ==
    \/ UtcToUnix

(***************************************************************************)
(* The one-day windows of get_point_visibility_helper                      *)
(* (kaos/api/visibility.py)                                                *)
(***************************************************************************)

\* Bound: a POI is at most MaxWindowQuarters quarter days and one second long.
MaxWindowQuarters == 9

\* Integer POIs with start <= end: shorter than a day, whole days, and a second more.
WindowPois ==
    {<<start, start + k * QuarterDay + d>> :
        start \in {0, 1, QuarterDay}, k \in 0..MaxWindowQuarters, d \in {0, 1}}

WindowStart(pois) ==
    /\ w_pc = "new"
    /\ w_poi \in pois
    /\ w_list = <<>>

\* Lines 103-107: poi_list is built from the POI.
SplitPoi ==
    /\ w_pc = "new"
    /\ w_list' = PoiList(w_poi[1], w_poi[2])
    /\ w_pc' = "split"
    /\ UNCHANGED w_poi
    /\ UNCHANGED notWindowVars

WindowNext ==
    \/ SplitPoi

(***************************************************************************)
(* Specifications: one per component, the other components at rest.       *)
(***************************************************************************)

\* A component at rest: constructed, and never run.
RestInterval == <<0, 0>>
RestWorld == CHOOSE w \in Worlds : TRUE
RestFile == CHOOSE f \in Files : TRUE

FinderInit ==
    /\ FinderStart(FinderIntervals, 0..MaxIterArg, BOOLEAN)
    /\ ApiStart({RestWorld}) /\ StoreStart(None) /\ ParserStart({RestFile})
    /\ IntervalStart({<<>>}) /\ ConeStart({RestInterval}, {<<NoRoots>>}, FALSE)
    /\ ClockStart({RestString}) /\ LookupStart /\ WindowStart({RestInterval})
FinderFairInit ==
    /\ FinderStart(ShortFinderIntervals, {MaxIterArg}, {TRUE})
    /\ ApiStart({RestWorld}) /\ StoreStart(None) /\ ParserStart({RestFile})
    /\ IntervalStart({<<>>}) /\ ConeStart({RestInterval}, {<<NoRoots>>}, FALSE)
    /\ ClockStart({RestString}) /\ LookupStart /\ WindowStart({RestInterval})
ApiInit ==
    /\ ApiStart(Worlds)
    /\ FinderStart({RestInterval}, {0}, {FALSE}) /\ StoreStart(None) /\ ParserStart({RestFile})
    /\ IntervalStart({<<>>}) /\ ConeStart({RestInterval}, {<<NoRoots>>}, FALSE)
    /\ ClockStart({RestString}) /\ LookupStart /\ WindowStart({RestInterval})
StoreInit ==
    /\ StoreStart(None)
    /\ FinderStart({RestInterval}, {0}, {FALSE}) /\ ApiStart({RestWorld}) /\ ParserStart({RestFile})
    /\ IntervalStart({<<>>}) /\ ConeStart({RestInterval}, {<<NoRoots>>}, FALSE)
    /\ ClockStart({RestString}) /\ LookupStart /\ WindowStart({RestInterval})
ParserInit ==
    /\ ParserStart(Files)
    /\ FinderStart({RestInterval}, {0}, {FALSE}) /\ ApiStart({RestWorld}) /\ StoreStart(None)
    /\ IntervalStart({<<>>}) /\ ConeStart({RestInterval}, {<<NoRoots>>}, FALSE)
    /\ ClockStart({RestString}) /\ LookupStart /\ WindowStart({RestInterval})
IntervalInit ==
    /\ IntervalStart(IntervalLists)
    /\ FinderStart({RestInterval}, {0}, {FALSE}) /\ ApiStart({RestWorld}) /\ StoreStart(None)
    /\ ParserStart({RestFile}) /\ ConeStart({RestInterval}, {<<NoRoots>>}, FALSE)
    /\ ClockStart({RestString}) /\ LookupStart /\ WindowStart({RestInterval})
ConeInit ==
    /\ ConeStart(ConePois \cup {<<QuarterDay, 0>>}, SingleSamples, TRUE)
    /\ FinderStart({RestInterval}, {0}, {FALSE}) /\ ApiStart({RestWorld}) /\ StoreStart(None)
    /\ ParserStart({RestFile}) /\ IntervalStart({<<>>})
    /\ ClockStart({RestString}) /\ LookupStart /\ WindowStart({RestInterval})
ConeSamplesInit ==
    /\ ConeStart({<<0, SecondsPerDay>>}, SamplePairs, FALSE)
    /\ FinderStart({RestInterval}, {0}, {FALSE}) /\ ApiStart({RestWorld}) /\ StoreStart(None)
    /\ ParserStart({RestFile}) /\ IntervalStart({<<>>})
    /\ ClockStart({RestString}) /\ LookupStart /\ WindowStart({RestInterval})
ClockInit ==
    /\ ClockStart(TimeStrings)
    /\ FinderStart({RestInterval}, {0}, {FALSE}) /\ ApiStart({RestWorld}) /\ StoreStart(None)
    /\ ParserStart({RestFile}) /\ IntervalStart({<<>>})
    /\ ConeStart({RestInterval}, {<<NoRoots>>}, FALSE) /\ LookupStart /\ WindowStart({RestInterval})
WindowInit ==
    /\ WindowStart(WindowPois)
    /\ FinderStart({RestInterval}, {0}, {FALSE}) /\ ApiStart({RestWorld}) /\ StoreStart(None)
    /\ ParserStart({RestFile}) /\ IntervalStart({<<>>})
    /\ ConeStart({RestInterval}, {<<NoRoots>>}, FALSE) /\ ClockStart({RestString}) /\ LookupStart

SpecFinder == FinderInit /\ [][FinderNext]_vars
\* The call runs to its end: no step of it is postponed for ever.  The sub-intervals do
\* not depend on the visibility at the end of the POI, which is fixed here.
SpecFinderFair == FinderFairInit /\ [][FinderNext]_vars /\ WF_vars(FinderNext)
SpecApi == ApiInit /\ [][ApiNext]_vars
SpecStore == StoreInit /\ [][StoreNext]_vars
SpecParser == ParserInit /\ [][ParserNext]_vars
SpecIntervals == IntervalInit /\ [][IntervalNext]_vars
SpecCone == ConeInit /\ [][ConeNext]_vars
\* reduce_poi over one day with two samples.
SpecConeSamples == ConeSamplesInit /\ [][ConeNext]_vars
SpecClock == ClockInit /\ [][ClockNext]_vars
SpecWindows == WindowInit /\ [][WindowNext]_vars

(***************************************************************************)
(* Properties of determine_visibility (SpecFinder)                         *)
(***************************************************************************)

\* C1: every window (s, e) returned by determine_visibility satisfies
\* POI.start <= s < e <= POI.end.
C1_WindowsInsidePoi ==
    f_pc = "returned" =>
        \A i \in 1..Len(sat_accesses) :
            /\ f_interval[1] <= sat_accesses[i][1]
            /\ sat_accesses[i][1] < sat_accesses[i][2]
            /\ sat_accesses[i][2] <= f_interval[2]

(***************************************************************************)
(* Properties of the search handlers (SpecApi)                             *)
(***************************************************************************)

RequestEnded == a_pc \in {"done", "failed"}
RejectedOrFinderError ==
    a_error \in {"InputError POI", "InputError PlatformID", "VisibilityFinderError"}

WindowsOf(list) == {list[k] : k \in 1..Len(list)}
InSomeWindow(windows, w) == \E v \in WindowsOf(windows) : v[1] <= w[1] /\ w[2] <= v[2]
\* One window of every vertex.
WindowChoices(vertex_windows) ==
    {c \in [DOMAIN vertex_windows ->
               UNION {WindowsOf(vertex_windows[i]) : i \in DOMAIN vertex_windows}] :
        \A i \in DOMAIN vertex_windows : c[i] \in WindowsOf(vertex_windows[i])}
LatestStart(c) == CHOOSE x \in {c[i][1] : i \in DOMAIN c} : \A i \in DOMAIN c : c[i][1] <= x
EarliestEnd(c) == CHOOSE x \in {c[i][2] : i \in DOMAIN c} : \A i \in DOMAIN c : c[i][2] >= x
\* The stretches of positive length that lie in a window of every vertex.
CommonStretches(vertex_windows) ==
    {<<LatestStart(c), EarliestEnd(c)>> :
        c \in {d \in WindowChoices(vertex_windows) : LatestStart(d) < EarliestEnd(d)}}

\* C2: an area request whose inputs are accepted and whose finders succeed returns, for
\* every satellite, the N-way common intersection of the per-vertex windows: every
\* returned opportunity lies in a window of each of the N vertices, and every stretch
\* common to the N vertices lies in a returned opportunity.
C2_AreaIntersection ==
    (a_req.kind = "area" /\ RequestEnded /\ ~RejectedOrFinderError) =>
        /\ a_pc = "done"
        /\ \A sat \in DOMAIN a_vertex :
              /\ \A w \in WindowsOf(a_periods[sat]) :
                    \A i \in DOMAIN a_vertex[sat] : InSomeWindow(a_vertex[sat][i], w)
              /\ \A w \in CommonStretches(a_vertex[sat]) : InSomeWindow(a_periods[sat], w)

\* C3: the list get_point_visibility_helper returns never holds two windows a, b with
\* a.end == b.start (an access spanning a day-split boundary is one window).
C3_HelperFuses ==
    \A sat \in DOMAIN a_vertex : \A i \in DOMAIN a_vertex[sat] :
        \A a, b \in WindowsOf(a_vertex[sat][i]) : a[2] /= b[1]

\* C4: when a search request completes successfully exactly one new ResponseHistory row
\* has been committed; its uid is the id returned to the caller and differs from every
\* uid that existed before, and its stored response is the serialized response (id and
\* Opportunities) returned to the caller.
C4_OneFreshEntry ==
    a_pc = "done" =>
        /\ Len(history) = Len(a_before) + 1
        /\ SubSeq(history, 1, Len(a_before)) = a_before
        /\ Last(history).uid = a_response.id
        /\ \A i \in 1..Len(a_before) : a_before[i].uid /= a_response.id
        /\ Last(history).response =
               <<"id", a_response.id, "Opportunities", a_response.Opportunities>>
\* A second request has completed successfully on a table that already held a row.
C4_Witness == a_pc = "done" /\ a_before /= <<>> /\ a_response.id /= None

\* C5: a committed ResponseHistory row is never modified: a reader that found the row of
\* an id has observed the full final response of that id.
C5_ReaderSeesFinalResponse ==
    (a_pc = "done" /\ r_seen.uid = a_response.id) => r_seen.response = history[a_entry].response

\* (A request that dies between the two commits, on the AttributeError of SaveResponse,
\* leaves its "{}" row behind; that failure is none of the three C6 names.)
\* C6: a request whose POI has start > end, or that names an unknown PlatformID, or whose
\* finder raises VisibilityFinderError, fails and leaves the ResponseHistory table as it
\* was before the request.
PoiReversed(req) == req.poi[1] /= BadTime /\ req.poi[2] /= BadTime /\ req.poi[1] > req.poi[2]
NamesUnknownPlatform(req) ==
    req.has_platform /\ \E i \in 1..Len(req.platform) : req.platform[i] \notin Satellites
C6_FailedRequestWritesNothing ==
    (a_pc /= "idle" /\ (\/ PoiReversed(a_req)
                        \/ NamesUnknownPlatform(a_req)
                        \/ a_error = "VisibilityFinderError")) =>
        /\ a_pc = "failed"
        /\ history = a_before
\* The finder has failed a request that arrived at a table holding a row.
C6_Witness ==
    /\ a_pc = "failed" /\ a_error = "VisibilityFinderError"
    /\ history /= <<>> /\ history = a_before

(***************************************************************************)
(* Properties of the segment store and the interpolator (SpecStore)        *)
(***************************************************************************)

\* Two segments share more than a single point of time.
OverlapInTime(a, b) ==
    Max(a.start_time, b.start_time) < Min(a.end_time, b.end_time)

\* C7: after any sequence of add_segment_to_db calls, no two stored segments of one
\* platform overlap in time in more than a single shared boundary point.
C7_NoOverlappingSegments ==
    \A i, j \in 1..Len(segments) :
        (i < j /\ segments[i].platform_id = segments[j].platform_id) =>
            ~OverlapInTime(segments[i], segments[j])

\* The segments of the interpolator's platform that hold the time of its last call.
Qualifying ==
    {i \in 1..Len(segments) :
        /\ segments[i].platform_id = i_platform
        /\ segments[i].start_time <= i_last.timestamp
        /\ i_last.timestamp <= segments[i].end_time}
Interpolated == i_last.error /= "no call"

SamplesOf(segment_id) == {k \in 1..Len(records) : records[k].segment_id = segment_id}

WellFormedFile ==
    /\ p_file.boundaries \subseteq p_file.samples
    /\ p_file.repeated
    /\ HasEndEphemeris(Last(p_file.lines))
BoundarySeq == SortedSeq(p_file.boundaries)
SampleRowsOfFile == {k \in 1..Len(p_file.lines) :
                        /\ p_file.lines[k].kind = "number"
                        /\ \E h \in 1..(k - 1) : HasTimePosVel(p_file.lines[h])}

\* C8: parsing such a file completes without error and stores exactly N segments,
\* segment k from epoch + b(k) to epoch + b(k+1); every sample row is stored in exactly
\* one segment, the second row of a repeated boundary opening the later segment.
C8_BoundariesPartitionSamples ==
    WellFormedFile =>
        /\ p_pc \notin {"IndexError", "ValueError"}
        /\ p_pc = "parsed" =>
              /\ Len(p_segments) = Len(BoundarySeq) - 1
              /\ \A k \in 1..Len(p_segments) :
                    /\ p_segments[k].start_time = p_epoch + BoundarySeq[k]
                    /\ p_segments[k].end_time = p_epoch + BoundarySeq[k + 1]
              /\ \A row \in SampleRowsOfFile :
                    Cardinality({k \in 1..Len(p_records) : p_records[k].row = row}) = 1

(***************************************************************************)
(* Properties of the interval utilities (SpecIntervals)                    *)
(***************************************************************************)

\* The input intervals that are not entirely outside the poi.
MeetingPoi == {i \in 1..Len(t_list) : ~(t_list[i][1] > t_poi[2] \/ t_list[i][2] < t_poi[1])}

\* C11: every interval of trim_poi_segments(list, bound) satisfies
\* bound.start <= start <= end <= bound.end and is the intersection of one input interval
\* with bound, and an input interval entirely outside bound contributes nothing.
C11_TrimClipsToBound ==
    t_pc = "trimmed" =>
        /\ \A k \in 1..Len(t_out) :
              /\ t_poi[1] <= t_out[k][1] /\ t_out[k][1] <= t_out[k][2] /\ t_out[k][2] <= t_poi[2]
              /\ \E i \in MeetingPoi :
                    t_out[k] = <<Max(t_list[i][1], t_poi[1]), Min(t_list[i][2], t_poi[2])>>
        /\ Len(t_out) = Cardinality(MeetingPoi)

\* C12: trim is idempotent, trim(trim(xs, b), b) = trim(xs, b).
C12_TrimIdempotent == t_pc = "trimmed twice" => t_again = t_out

\* The intervals handed to fuse_neighbor_intervals (the caller's list, less the None the
\* call appended to it).
FuseInput == SelectSeq(t_list, LAMBDA iv : iv /= <<None>>)
\* Two intervals share more than a border: a stretch, or a point inside one of them.
Overlapping(a, b) ==
    \/ Max(a[1], b[1]) < Min(a[2], b[2])
    \/ (a[1] = a[2] /\ b[1] < a[1] /\ a[1] < b[2])
    \/ (b[1] = b[2] /\ a[1] < b[1] /\ b[1] < a[2])
    \/ a = b
NonOverlapping(list) ==
    \A i, j \in 1..Len(list) : i /= j => ~Overlapping(list[i], list[j])
AtMostTwoShareABorder(list) ==
    \A x \in 0..MaxIntervalTime :
        Cardinality({i \in 1..Len(list) : list[i][1] = x \/ list[i][2] = x}) <= 2
PositiveLengths(list) == \A i \in 1..Len(list) : list[i][1] < list[i][2]
\* The times a list covers: its points and its unit stretches.
CoveredPoints(list) ==
    {x \in 0..MaxIntervalTime : \E i \in 1..Len(list) : list[i][1] <= x /\ x <= list[i][2]}
CoveredStretches(list) ==
    {x \in 0..MaxIntervalTime : \E i \in 1..Len(list) : list[i][1] <= x /\ x + 1 <= list[i][2]}
\* `out` is `list` in ascending order with every run of touching intervals made one.
IsFusionOf(out, list) ==
    /\ \A k \in 1..(Len(out) - 1) : out[k][1] <= out[k + 1][1]
    /\ \A k, h \in 1..Len(out) : k /= h => out[k][2] /= out[h][1]
    /\ \A k \in 1..Len(out) :
          /\ \E i \in 1..Len(list) : list[i][1] = out[k][1]
          /\ \E i \in 1..Len(list) : list[i][2] = out[k][2]
    /\ CoveredPoints(out) = CoveredPoints(list)
    /\ CoveredStretches(out) = CoveredStretches(list)

C14_FuseIdempotent == t_pc = "fused twice" => t_again = t_out
\* A list with a run to fuse and an overlap has been fused twice.
C14_Witness ==
    /\ t_pc = "fused twice"
    /\ Len(t_out) < Len(FuseInput) /\ ~NonOverlapping(FuseInput)

(***************************************************************************)
(* C15..C16, C20: reduce_poi                                               *)
(***************************************************************************)

\* C15: every interval reduce_poi returns is a well-formed sub-interval of the POI,
\* poi.start <= start <= end <= poi.end, for every POI with poi.start <= poi.end and
\* every combination of root offsets.
C15_ReducedInsidePoi ==
    (v_pc = "reduced" /\ v_poi[1] <= v_poi[2]) =>
        \A k \in 1..Len(v_out) :
            /\ v_poi[1] <= v_out[k][1]
            /\ v_out[k][1] <= v_out[k][2]
            /\ v_out[k][2] <= v_poi[2]

\* Both root pairs of a day are emitted as splits around the day boundary.
BothPairsSplit(roots) == roots /= NoRoots /\ ~(roots[3] < roots[1]) /\ ~(roots[2] < roots[4])

\* C16: whenever both root pairs of a day wrap around the day boundary (both are emitted
\* as splits), reduce_poi raises ViewConeError and returns no intervals.
C16_BothWrapRaises ==
    (v_pc /= "new" /\ v_poi[1] <= v_poi[2] /\ ExpectedFinalM(v_poi) > 0
        /\ BothPairsSplit(v_roots)) =>
        (v_pc = "ViewConeError" /\ v_out = <<>>)

\* C20: reducer soundness: a time of the POI at which the satellite is visible
\* (V(t) >= 0) lies in an interval reduce_poi returned.
C20_ReducerSound ==
    (v_pc = "reduced" /\ v_seen /= None) =>
        \E k \in 1..Len(v_out) : v_out[k][1] <= v_seen /\ v_seen <= v_out[k][2]

(***************************************************************************)
(* C17: utc_to_unix                                                        *)
(***************************************************************************)

\* A well-formed 'YYYYMMDDTHH:MM:SS.sss' timestamp: the T separator, a calendar date, a
\* time of day and a fraction of one to six digits.
WellFormedTimestamp(time_string) ==
    /\ time_string.sep = "T"
    /\ time_string.digits \in 1..6
    /\ time_string.month \in 1..12
    /\ time_string.day \in 1..DaysInMonth(time_string.year, time_string.month)
    /\ time_string.hour \in 0..23
    /\ time_string.minute \in 0..59
    /\ time_string.second \in 0..59

\* C17: utc_to_unix raises ValueError for every string that is not a well-formed
\* timestamp and for every well-formed timestamp of a date before 1970-01-01; for
\* every accepted string it returns a non-negative whole number of seconds, the
\* sub-second digits truncated.
C17_UtcToUnixRejects ==
    c_pc /= "new" =>
        /\ (~WellFormedTimestamp(c_string) \/ c_string.year < EpochYear)
               => c_pc = "ValueError"
        /\ c_pc = "returned" =>
               /\ c_out >= 0
               /\ c_out * 1000000 <= timegm(c_string) * 1000000 + c_string.microsecond
               /\ timegm(c_string) * 1000000 + c_string.microsecond < (c_out + 1) * 1000000

(***************************************************************************)
(* C18: ResponseHistory.get_by_id                                          *)
(***************************************************************************)

\* The ResponseHistory entry stored under the uid, None when there is none.
StoredEntry(table, uid) ==
    IF \E k \in DOMAIN table : table[k].uid = uid
    THEN LET k == CHOOSE k \in DOMAIN table : table[k].uid = uid
         IN  [table |-> "ResponseHistory", key |-> uid, response |-> table[k].response]
    ELSE NoRow

\* C18: ResponseHistory.get_by_id(uid) returns the ResponseHistory entry stored under
\* that uid, and None when no ResponseHistory entry has that uid, whatever the Satellite
\* table holds.
C18_GetByIdReturnsEntry ==
    [][g_last' /= g_last => g_last'.row = StoredEntry(history, g_last'.uid)]_vars

(***************************************************************************)
(* C19: the end of the POI in determine_visibility                         *)
(***************************************************************************)

\* The step that ends the loop of determine_visibility.
LoopEnds == f_pc = "loop" /\ f_pc' \in {"returned", "VisibilityFinderError"}

\* C19: at the end of the POI, if an access is still open and V(POI.end) <= 0,
\* determine_visibility raises VisibilityFinderError and returns no windows, not even
\* the completed ones; if V(POI.end) > 0 it returns the completed windows followed by
\* the final window (access_start, POI.end).
C19_OpenAccessAtPoiEnd ==
    [][(LoopEnds /\ access_start /= None) =>
          IF f_vend' = "positive"
          THEN /\ f_pc' = "returned"
               /\ sat_accesses' = Append(sat_accesses, <<access_start, f_interval[2]>>)
          ELSE /\ f_vend' = "not positive"
               /\ f_pc' = "VisibilityFinderError"]_vars
\* The call raised at the end of the POI with an access open and windows completed.
C19_Witness ==
    /\ f_pc = "VisibilityFinderError"
    /\ f_vend = "not positive"
    /\ access_start /= None
    /\ sat_accesses /= <<>>

(***************************************************************************)
(* C21..C23, C28, C29: the access state machine and the sub-intervals of   *)
(* determine_visibility                                                    *)
(***************************************************************************)

\* The times at which the access state toggles: the start of the POI when the finder
\* starts INSIDE, then the roots in processing order.
ToggleTimes == (IF f_vstart = "positive" THEN <<f_interval[1]>> ELSE <<>>) \o f_roots
Odd(n) == n % 2 = 1

\* C21: the finder starts INSIDE (access_start = POI.start) iff V(POI.start) > 0; after
\* the roots r1..rk it is INSIDE iff (V(POI.start) > 0) XOR (k is odd); a root processed
\* while INSIDE emits exactly the window (access_start, r) and clears access_start, a
\* root processed while OUTSIDE sets access_start = r and emits nothing.
C21_AccessesAlternateOnRoots ==
    f_pc \in {"loop", "adapt", "roots"} =>
        /\ f_roots = <<>> =>
              access_start = (IF f_vstart = "positive" THEN f_interval[1] ELSE None)
        /\ (access_start /= None) <=> ((f_vstart = "positive") /= Odd(Len(f_roots)))
        /\ sat_accesses = [i \in 1..(Len(ToggleTimes) \div 2) |->
                              <<ToggleTimes[2 * i - 1], ToggleTimes[2 * i]>>]
        /\ access_start = (IF Odd(Len(ToggleTimes)) THEN Last(ToggleTimes) ELSE None)
\* A finder that started INSIDE has processed a root INSIDE and the next one OUTSIDE.
C21_Witness ==
    /\ f_pc = "loop"
    /\ f_vstart = "positive"
    /\ Len(f_roots) >= 2
    /\ Len(sat_accesses) = 1
    /\ access_start = f_roots[2]

\* The access state machine is INSIDE: an access is open.
Inside == access_start /= None

\* C22: determine_visibility returns a result only when the final state of the access
\* state machine agrees with the sign of V(POI.end): INSIDE only if V(POI.end) > 0,
\* OUTSIDE only if V(POI.end) <= 0; any disagreement is a VisibilityFinderError.
C22_FinalStateAgreesWithEnd ==
    /\ f_pc = "returned" => (Inside <=> f_end_visible)
    /\ f_pc = "VisibilityFinderError" => ~(Inside <=> f_end_visible)

\* C23: for each sub-interval the step-adaptation loop replaces the step (h1 <- h2) at
\* most max_iter times, whatever positive values bound_time_step_error returns.
C23_AtMostMaxIterReplacements ==
    f_pc \in {"adapt", "roots"} => iter_num <= f_max_iter

\* The boundaries shared by two consecutive sub-intervals examined so far.
SharedBoundaries == {f_examined[k][2] : k \in 1..(Len(f_examined) - 1)}
TimesCounted(root) == Cardinality({i \in DOMAIN f_roots : f_roots[i] = root})

\* C28: every zero crossing toggles the access state exactly once: a root on the
\* boundary shared by two consecutive sub-intervals is counted in only one of the two
\* steps, and no window with start = end is emitted.
C28_BoundaryRootCountedOnce ==
    /\ \A root \in SharedBoundaries : TimesCounted(root) <= 1
    /\ \A i \in DOMAIN sat_accesses : sat_accesses[i][1] /= sat_accesses[i][2]

FinderEnded == f_pc \in {"returned", "VisibilityFinderError"}
\* The sub-intervals examined so far begin at POI.start, each begins where the previous
\* one ended, and each has positive length.
ExaminedChain ==
    /\ f_examined /= <<>> => f_examined[1][1] = f_interval[1]
    /\ \A k \in 1..(Len(f_examined) - 1) : f_examined[k + 1][1] = f_examined[k][2]
    /\ \A k \in DOMAIN f_examined : f_examined[k][1] < f_examined[k][2]
\* The loop has stopped after a sub-interval that reaches POI.end, and every time of the
\* POI lies in an examined sub-interval.
ExaminedCoverPoi ==
    /\ f_examined /= <<>>
    /\ Last(f_examined)[2] >= f_interval[2]
    /\ \A t \in f_interval[1]..f_interval[2] :
          \E k \in DOMAIN f_examined : f_examined[k][1] <= t /\ t <= f_examined[k][2]

C25_ReducedIsFused ==
    v_pc = "reduced" =>
        \A i, j \in DOMAIN v_out :
            i /= j => (v_out[i][2] /= v_out[j][1] /\ v_out[i] /= v_out[j])

\* C26: for every day index m in 0 .. ceil((poi.end - poi.start)/86400) - 1, the
\* intervals emitted in iteration m lie within
\* [poi.start + m*86400, poi.start + (m+1)*86400].
C26_EmittedInsideDay ==
    v_pc = "reduced" =>
        \A k \in DOMAIN v_emitted : \A n \in DOMAIN v_emitted[k] :
            /\ v_poi[1] + (k - 1) * 86400 <= v_emitted[k][n][1]
            /\ v_emitted[k][n][1] <= v_poi[1] + k * 86400
            /\ v_poi[1] + (k - 1) * 86400 <= v_emitted[k][n][2]
            /\ v_emitted[k][n][2] <= v_poi[1] + k * 86400

\* The times of the grid that lie in an interval of the list.
CoveredBy(interval_list) ==
    {t \in {k * QuarterDay : k \in 0..4} :
        \E n \in DOMAIN interval_list : interval_list[n][1] <= t /\ t <= interval_list[n][2]}
\* The intervals reduce_poi emits for the day when run with one of the samples alone.
EmittedAlone(sample) ==
    LET alone == reduce_poi(sample, v_poi)
    IN  IF alone.error /= "none" THEN <<>> ELSE DayIntervals(sample, v_poi, 0)

\* C30: combining several samples never excludes a time that a single sample keeps: for
\* one day, the union of the intervals emitted for the list of samples contains the
\* union of the intervals emitted for each of the samples alone.
C30_CombiningKeepsTimes ==
    v_pc = "reduced" =>
        \A i \in DOMAIN v_samples :
            CoveredBy(EmittedAlone(v_samples[i])) \subseteq CoveredBy(v_emitted[1])

(***************************************************************************)
(* C27: the end of the EphemerisTimePosVel block                           *)
(***************************************************************************)

\* The end line of the block is among the lines processed so far.
EndLineProcessed ==
    /\ p_pc \in {"reading", "parsed"}
    /\ \E k \in 1..(p_line - 1) : HasEndEphemeris(p_file.lines[k])

\* C27: once the end line of the block ('END EphemerisTimePosVel' or 'END Ephemeris')
\* has been processed, the parser is no longer in sample-reading mode, no later line is
\* parsed as a sample, and no further segment is stored.
C27_NothingReadAfterEnd ==
    /\ [](EndLineProcessed => (~read_orbital_data /\ p_after_end = 0))
    /\ [][EndLineProcessed => (p_segments' = p_segments /\ p_records' = p_records)]_vars

====
